---- MODULE Spec2Model ----
(***************************************************************************)
(* A model of the task lifecycle engine of the To-Do Manager               *)
(* (src/app.py, src/todo/models.py, src/todo/storage.py).                  *)
(*                                                                         *)
(* The state is the state of one TodoApp object plus the three JSON files  *)
(* it reads and writes.  Every handler of the application is an operator   *)
(* from a state record to the state record the handler leaves behind; an   *)
(* action of the specification applies one handler to the current state.   *)
(* Texts are sequences of one-character strings, so that strip(), lower()  *)
(* and the substring test of the search box are computed, not assumed.     *)
(***************************************************************************)
EXTENDS Integers, Sequences, FiniteSets, TLC

VARIABLES
    tasks,            \* self.tasks: the active collection (list of Task)
    archived_tasks,   \* self.archived_tasks
    finished_tasks,   \* self.finished_tasks
    timers,           \* self.timers: task id -> state of the recorded after-id
    after,            \* Tk's queue of scheduled tick callbacks: task id -> count
    timer_labels,     \* self.timer_labels: task id -> state of the label widget
    search_var,       \* self.search_var
    status_filter,    \* self.status_filter
    priority_filter,  \* self.priority_filter
    stats_label,      \* the numbers in the text of self.stats_label
    archive_count_label,  \* the number in the text of self.archive_count_label
    files,            \* the three stores on disk, by path
    disk,             \* the condition of the disk the stores are on
    now               \* datetime.now(), as a logical clock

vars == <<tasks, archived_tasks, finished_tasks, timers, after, timer_labels,
          search_var, status_filter, priority_filter, stats_label,
          archive_count_label, files, disk, now>>

-----------------------------------------------------------------------------
(* Bounds of the model.                                                    *)

\* Creates stop when the clock reaches MaxNow.
MaxNow == 1
\* Ticks stop when the seconds counted for all tasks together reach MaxSecs.
MaxSecs == 1

-----------------------------------------------------------------------------
(* Python values.                                                          *)

\* None, among values that are texts (sequences of characters)
None == <<"None">>

TASKS_PATH == "tasks.json"
ARCHIVE_PATH == "archive.json"
FINISHED_PATH == "finished.json"

\* datetime.isoformat(): the timestamp as a string
isoformat(n) == <<ToString(n)>>

\* the last element of a list: list[-1]
Last(s) == s[Len(s)]

\* str.lower() on the characters the model uses
lower_char(c) ==
    IF c = "A" THEN "a" ELSE IF c = "B" THEN "b" ELSE IF c = "C" THEN "c" ELSE c

lower(s) == [i \in DOMAIN s |-> lower_char(s[i])]

\* str.lower() on a word of the priority menu
lower_word(w) ==
    CASE w = "High" -> "high"
      [] w = "Medium" -> "medium"
      [] w = "Low" -> "low"
      [] OTHER -> w

RECURSIVE lstrip(_)
lstrip(s) == IF s # <<>> /\ Head(s) = " " THEN lstrip(Tail(s)) ELSE s

RECURSIVE rstrip(_)
rstrip(s) ==
    IF s # <<>> /\ s[Len(s)] = " " THEN rstrip(SubSeq(s, 1, Len(s) - 1)) ELSE s

\* a strip that trims nothing
strip_nothing(s) == s

\* str.strip()
strip(s) == rstrip(lstrip(s))

\* Python's `q in s` on strings
contains(q, s) ==
    \E i \in 1..(Len(s) - Len(q) + 1) : SubSeq(s, i, i + Len(q) - 1) = q

\* Python's dict.get(key, default)
get(d, key, default) == IF key \in DOMAIN d THEN d[key] ELSE default

\* the dict d without key k (del d[k])
del(d, k) == [x \in DOMAIN d \ {k} |-> d[x]]

\* d[k] = v
put(d, k, v) == [x \in DOMAIN d \cup {k} |-> IF x = k THEN v ELSE d[x]]

\* the empty dict
EmptyDict == [x \in {} |-> None]

SeqToSet(s) == {s[i] : i \in DOMAIN s}

Ids(s) == {s[i].id : i \in DOMAIN s}

RECURSIVE MaxOf(_)
MaxOf(S) ==
    IF S = {} THEN 0
    ELSE LET x == CHOOSE y \in S : TRUE
             m == MaxOf(S \ {x})
         IN IF x > m THEN x ELSE m

-----------------------------------------------------------------------------
(* src/todo/models.py                                                      *)

\* a constructor that stamps every task with the current time
Task_restamped(kw, clock) ==
    [id |-> kw.id, title |-> kw.title, description |-> kw.description,
     status |-> kw.status, priority |-> kw.priority,
     created_at |-> isoformat(clock),
     due_date |-> get(kw, "due_date", None),
     duration_seconds |-> get(kw, "duration_seconds", 0),
     remaining_seconds |-> get(kw, "remaining_seconds", 0),
     completed_at |-> get(kw, "completed_at", None)]

\* the dataclass constructor called with the keyword arguments kw (the last
\* four fields have defaults), followed by __post_init__
Task(kw, clock) ==
    [id |-> kw.id, title |-> kw.title, description |-> kw.description,
     status |-> kw.status, priority |-> kw.priority,
     created_at |-> IF kw.created_at = None THEN isoformat(clock)
                    ELSE kw.created_at,
     due_date |-> get(kw, "due_date", None),
     duration_seconds |-> get(kw, "duration_seconds", 0),
     remaining_seconds |-> get(kw, "remaining_seconds", 0),
     completed_at |-> get(kw, "completed_at", None)]

\* a to_dict that leaves out the elapsed time
to_dict_without_remaining(t) ==
    [id |-> t.id, title |-> t.title, description |-> t.description,
     status |-> t.status, priority |-> t.priority, created_at |-> t.created_at,
     due_date |-> t.due_date, duration_seconds |-> t.duration_seconds,
     completed_at |-> t.completed_at]

\* Task.to_dict: asdict(self)
to_dict(t) ==
    [id |-> t.id, title |-> t.title, description |-> t.description,
     status |-> t.status, priority |-> t.priority, created_at |-> t.created_at,
     due_date |-> t.due_date, duration_seconds |-> t.duration_seconds,
     remaining_seconds |-> t.remaining_seconds, completed_at |-> t.completed_at]

\* a from_dict that takes the elapsed time from the duration when there is
\* one
from_dict_duration_first(d, clock) ==
    Task([id |-> get(d, "id", 0),
          title |-> get(d, "title", <<>>),
          description |-> get(d, "description", <<>>),
          status |-> get(d, "status", "pending"),
          priority |-> get(d, "priority", "low"),
          created_at |-> get(d, "created_at", None),
          due_date |-> get(d, "due_date", None),
          duration_seconds |-> get(d, "duration_seconds", 0),
          remaining_seconds |->
              get(d, "duration_seconds", get(d, "remaining_seconds", 0)),
          completed_at |-> get(d, "completed_at", None)],
         clock)

\* Task.from_dict
from_dict(d, clock) ==
    Task([id |-> get(d, "id", 0),
          title |-> get(d, "title", <<>>),
          description |-> get(d, "description", <<>>),
          status |-> get(d, "status", "pending"),
          priority |-> get(d, "priority", "low"),
          created_at |-> get(d, "created_at", None),
          due_date |-> get(d, "due_date", None),
          duration_seconds |-> get(d, "duration_seconds", 0),
          remaining_seconds |->
              get(d, "remaining_seconds", get(d, "duration_seconds", 0)),
          completed_at |-> get(d, "completed_at", None)],
         clock)

-----------------------------------------------------------------------------
(* src/todo/storage.py                                                     *)
(* A file is [kind, data]: kind "missing" (no such file), "corrupt" (not   *)
(* parseable JSON) or "ok" (a JSON array, data its sequence of objects).   *)
(* A JSON object is a record of its keys; an "id" whose value is a text    *)
(* that is no number is the key id_text.                                   *)

MissingFile == [kind |-> "missing", data |-> <<>>]

JsonFile(data) == [kind |-> "ok", data |-> data]

\* a file json.load cannot parse
CorruptFile == [kind |-> "corrupt", data |-> <<>>]

\* Task.from_dict returns for the item: int(d.get("id", 0)) raises
\* ValueError for a text that is no number
decodes(d) == "id_text" \notin DOMAIN d

\* a load that leaves out the records it cannot decode
load_tasks_skipping(fs, filepath, clock) ==
    IF fs[filepath].kind # "ok" THEN <<>>
    ELSE LET good == SelectSeq(fs[filepath].data, decodes)
         IN [i \in DOMAIN good |-> from_dict(good[i], clock)]

\* load_tasks: [] for no file, and [] when json.load or a from_dict raises
load_tasks(fs, filepath, clock) ==
    IF fs[filepath].kind = "missing" THEN <<>>
    ELSE IF fs[filepath].kind = "corrupt" THEN <<>>
    ELSE IF \E i \in DOMAIN fs[filepath].data : ~decodes(fs[filepath].data[i])
    THEN <<>>
    ELSE [i \in DOMAIN fs[filepath].data |-> from_dict(fs[filepath].data[i], clock)]

\* a file whose array was cut off before its closing bracket
CutFile(data) == [kind |-> "corrupt", data |-> data]

\* data = [task.to_dict() for task in tasks]
to_dicts(list) == [i \in DOMAIN list |-> to_dict(list[i])]

\* What a reader of the file finds, point by point, while save_tasks runs:
\* the file as it was (the list is being converted), the file emptied by
\* open(filepath, 'w'), the file with the records json.dump has written so
\* far, and the file closed with the whole array in it.
save_points(old, list) ==
    <<old, CutFile(<<>>)>>
        \o [k \in 1..Len(list) |-> CutFile(SubSeq(to_dicts(list), 1, k))]
        \o <<JsonFile(to_dicts(list))>>

\* The point at which the write ends.  On a disk in order it ends with the
\* closed file; where the file may not be written, open raises and the file
\* stays as it was; on a full disk open has emptied the file and the write
\* that follows raises.
ends_at(condition, list) ==
    CASE condition = "ok" -> Len(list) + 3
      [] condition = "denied" -> 1
      [] condition = "full" -> 2

\* a save that writes nothing
save_tasks_skipped(S, filepath, list) == S

\* a save that drops the active collection when the write fails
save_tasks_dropping(S, filepath, list) ==
    IF S.disk = "ok"
    THEN [S EXCEPT !.files[filepath] = JsonFile(to_dicts(list))]
    ELSE [S EXCEPT !.tasks = <<>>]

\* save_tasks: the state S with the file at filepath as the write leaves
\* it; `except Exception` keeps an OSError from the caller
save_tasks(S, filepath, list) ==
    [S EXCEPT !.files[filepath] =
        save_points(S.files[filepath], list)[ends_at(S.disk, list)]]

\* a next id that forgets the + 1
get_next_id_of_max(list) == IF list = <<>> THEN 1 ELSE MaxOf(Ids(list))

\* get_next_id
get_next_id(list) == IF list = <<>> THEN 1 ELSE MaxOf(Ids(list)) + 1

-----------------------------------------------------------------------------
(* src/app.py: the state of a TodoApp and of the files, as one record.     *)

St ==
    [tasks |-> tasks, archived_tasks |-> archived_tasks,
     finished_tasks |-> finished_tasks, timers |-> timers, after |-> after,
     timer_labels |-> timer_labels, search_var |-> search_var,
     status_filter |-> status_filter, priority_filter |-> priority_filter,
     stats_label |-> stats_label, archive_count_label |-> archive_count_label,
     files |-> files, disk |-> disk, now |-> now]

\* [t for t in list if t.id != id]
Without(list, id) == SelectSeq(list, LAMBDA t : t.id # id)

\* every task held by one of the three collections
AllTasks(S) ==
    SeqToSet(S.tasks) \cup SeqToSet(S.archived_tasks) \cup SeqToSet(S.finished_tasks)

\* an assignment that reaches every task, whatever its id
setattr_of_all(S, id, field, value) ==
    LET upd(list) == [i \in DOMAIN list |-> [list[i] EXCEPT ![field] = value]]
    IN [S EXCEPT !.tasks = upd(@), !.archived_tasks = upd(@),
                 !.finished_tasks = upd(@)]

\* An assignment to an attribute of the Task object with this id.  A Task
\* object is shared by every list that holds it, so the assignment shows in
\* each of them; objects created or loaded by the application have ids of
\* their own, and the object is found by its id.
setattr(S, id, field, value) ==
    LET upd(list) ==
            [i \in DOMAIN list |->
                IF list[i].id = id THEN [list[i] EXCEPT ![field] = value]
                ELSE list[i]]
    IN [S EXCEPT !.tasks = upd(@), !.archived_tasks = upd(@),
                 !.finished_tasks = upd(@)]

\* task.status as a tick closure reads it: the status of the object it holds
status_of(S, id) ==
    IF \E t \in AllTasks(S) : t.id = id
    THEN (CHOOSE t \in AllTasks(S) : t.id = id).status
    ELSE "deleted"

\* root.after(1000, tick): one more callback scheduled for the task
schedule(aft, id) == put(aft, id, get(aft, id, 0) + 1)

\* one callback of the task leaves Tk's queue (it fired or was cancelled)
unschedule(aft, id) ==
    IF get(aft, id, 0) <= 1 THEN del(aft, id) ELSE put(aft, id, aft[id] - 1)

\* _start_timer: schedules the first tick and records its after-id
_start_timer(S, id) ==
    [S EXCEPT !.after = schedule(@, id), !.timers = put(@, id, "pending")]

\* a stop that starts the timer when none is recorded
_stop_timer_toggling(S, task_id) ==
    LET S1 == IF task_id \in DOMAIN S.timers
              THEN [S EXCEPT !.after = unschedule(@, task_id),
                             !.timers = del(@, task_id)]
              ELSE _start_timer(S, task_id)
    IN save_tasks(S1, TASKS_PATH, S1.tasks)

\* a stop that forgets the timer and leaves its tick scheduled
_stop_timer_not_cancelled(S, task_id) ==
    LET S2 == [S EXCEPT !.timers = del(@, task_id)]
    IN save_tasks(S2, TASKS_PATH, S2.tasks)

\* a stop that does not save
_stop_timer_unsaved(S, task_id) ==
    LET S1 == IF task_id \in DOMAIN S.timers /\ S.timers[task_id] = "pending"
              THEN [S EXCEPT !.after = unschedule(@, task_id)]
              ELSE S
    IN [S1 EXCEPT !.timers = del(@, task_id)]

\* _stop_timer: after_cancel of the recorded after-id (nothing to cancel when
\* that callback has fired already), del self.timers[id], save the active store
_stop_timer(S, task_id) ==
    LET S1 == IF task_id \in DOMAIN S.timers /\ S.timers[task_id] = "pending"
              THEN [S EXCEPT !.after = unschedule(@, task_id)]
              ELSE S
        S2 == [S1 EXCEPT !.timers = del(@, task_id)]
    IN save_tasks(S2, TASKS_PATH, S2.tasks)

\* an increment that reaches every task of the list
increment_all(list, id) ==
    [i \in DOMAIN list |-> [list[i] EXCEPT !.remaining_seconds = @ + 1]]

\* for t in self.tasks: if t.id == task.id: t.remaining_seconds += 1; break
increment_first(list, id) ==
    LET hits == {i \in DOMAIN list : list[i].id = id}
        first == CHOOSE i \in hits : \A j \in hits : i <= j
    IN IF hits = {} THEN list
       ELSE [list EXCEPT ![first].remaining_seconds = @ + 1]

\* tick, the closure of _start_timer, fired by Tk for the task with this id.
\* recorded: the callback that fires is the one self.timers records.
\* lbl.config raises TclError on a label a later render destroyed: the
\* exception leaves tick before it schedules itself again.
tick(S, id, recorded) ==
    LET S1 == [S EXCEPT !.after = unschedule(@, id),
                        !.timers = IF recorded THEN put(@, id, "fired") ELSE @]
        S2 == [S1 EXCEPT !.tasks = increment_first(@, id)]
        raised == id \in DOMAIN S2.timer_labels /\ S2.timer_labels[id] = "destroyed"
    IN IF raised THEN S2
       ELSE IF status_of(S2, id) # "done" THEN _start_timer(S2, id)
       ELSE S2

\* status_map.get(status_f, status_f)
status_map(s) ==
    CASE s = "menu All" -> "all"
      [] s = "menu Pending" -> "pending"
      [] s = "menu Done" -> "done"
      [] OTHER -> s

\* prio_map.get(prio_f, prio_f)
prio_map(s) ==
    CASE s = "menu All" -> "all"
      [] s = "menu High" -> "high"
      [] s = "menu Medium" -> "medium"
      [] s = "menu Low" -> "low"
      [] OTHER -> s

\* the filtering of _render_tasks: the tasks that get a card
visible_tasks(S) ==
    LET q == lower(strip(S.search_var))
        by_status(t) ==
            S.status_filter = "all" \/ status_map(S.status_filter) = "all"
                \/ t.status = status_map(S.status_filter)
        by_prio(t) ==
            S.priority_filter = "all" \/ prio_map(S.priority_filter) = "all"
                \/ t.priority = prio_map(S.priority_filter)
        by_text(t) ==
            q = <<>> \/ contains(q, lower(t.title)) \/ contains(q, lower(t.description))
    IN SelectSeq(S.tasks, LAMBDA t : by_status(t) /\ by_prio(t) /\ by_text(t))

\* the text="" the labels of the statistics are built with
NoText == <<>>

\* the number of tasks of the list that P holds of: sum(1 for t in list if P(t))
CountOf(list, P(_)) == Cardinality({i \in DOMAIN list : P(list[i])})

\* statistics that count the finished tasks in the total
_update_stats_with_finished(S) ==
    [S EXCEPT
        !.stats_label =
            [total |-> Len(S.tasks) + Len(S.finished_tasks),
             pending |-> CountOf(S.tasks, LAMBDA t : t.status # "done"),
             done |-> Len(S.finished_tasks),
             high |-> CountOf(S.tasks,
                              LAMBDA t : t.priority = "high" /\ t.status # "done")],
        !.archive_count_label = Len(S.archived_tasks)]

\* _update_stats: the numbers it puts into the text of the labels
_update_stats(S) ==
    [S EXCEPT
        !.stats_label =
            [total |-> Len(S.tasks),
             pending |-> CountOf(S.tasks, LAMBDA t : t.status # "done"),
             done |-> Len(S.finished_tasks),
             high |-> CountOf(S.tasks,
                              LAMBDA t : t.priority = "high" /\ t.status # "done")],
        !.archive_count_label = Len(S.archived_tasks)]

\* a card that starts a timer whether or not one is recorded for the task
_create_task_card_always_starting(S, task) ==
    LET S1 == [S EXCEPT !.timer_labels = put(@, task.id, "live")]
    IN IF task.status # "done" THEN _start_timer(S1, task.id) ELSE S1

\* _create_task_card: the card's label replaces the task's entry in
\* timer_labels, and a task with no entry in timers gets its timer started
_create_task_card(S, task) ==
    LET S1 == [S EXCEPT !.timer_labels = put(@, task.id, "live")]
    IN IF task.id \notin DOMAIN S1.timers /\ task.status # "done"
       THEN _start_timer(S1, task.id)
       ELSE S1

RECURSIVE create_cards(_, _)
create_cards(S, list) ==
    IF list = <<>> THEN S
    ELSE create_cards(_create_task_card(S, Head(list)), Tail(list))

\* _render_tasks: destroys every card (and with it every timer label),
\* creates a card for each task the filters let through, then updates the
\* statistics.  The order of the cards (tasks.sort by created_at) changes
\* no state of this model.
_render_tasks(S) ==
    LET S1 == [S EXCEPT !.timer_labels = [k \in DOMAIN @ |-> "destroyed"]]
    IN _update_stats(create_cards(S1, visible_tasks(S1)))

\* the argument of _open_task_window when it is opened to add a task
NoTask == <<>>

\* a completion that resets the elapsed time
clamp_to_zero(n) == 0

\* max(0, task.remaining_seconds or 0)
clamp(n) == IF n > 0 THEN n ELSE 0

\* on_save, the Save button of the add / edit window.  form holds what the
\* user left in the title entry, the description box, the priority menu
\* (as its words) and the due-date entry.
on_save(S, task, form) ==
    LET title_text == strip(form.title)
        description == strip(form.description)
        prio == lower_word(Last(form.prio_full))
        due == IF strip(form.due) = <<>> THEN None ELSE strip(form.due)
        new_id == get_next_id(S.tasks \o S.archived_tasks \o S.finished_tasks)
        new_task == Task([id |-> new_id, title |-> title_text,
                          description |-> description, status |-> "pending",
                          priority |-> prio, created_at |-> isoformat(S.now),
                          due_date |-> due, duration_seconds |-> 0,
                          remaining_seconds |-> 0], S.now)
        added == [S EXCEPT !.tasks = Append(@, new_task), !.now = @ + 1]
        edited == setattr(setattr(setattr(setattr(S,
                      task.id, "title", title_text),
                      task.id, "description", description),
                      task.id, "priority", prio),
                      task.id, "due_date", due)
        S1 == IF DOMAIN task = {} THEN added ELSE edited
    IN IF title_text = <<>> THEN S
       ELSE _render_tasks(save_tasks(S1, TASKS_PATH, S1.tasks))

\* _mark_done
_mark_done(S, task) ==
    LET S1 == IF task.id \in DOMAIN S.timers THEN _stop_timer(S, task.id) ELSE S
        S2 == [S1 EXCEPT !.tasks = Without(@, task.id)]
        secs == clamp(task.remaining_seconds)
        S3 == setattr(setattr(S2, task.id, "status", "done"),
                      task.id, "remaining_seconds", secs)
        S4 == [S3 EXCEPT !.finished_tasks =
                  Append(@, [task EXCEPT !.status = "done", !.remaining_seconds = secs])]
        S5 == save_tasks(S4, TASKS_PATH, S4.tasks)
        S6 == save_tasks(S5, FINISHED_PATH, S5.finished_tasks)
    IN _update_stats(_render_tasks(S6))

\* a reopen that leaves an elapsed time of 0 as it is
reopened_seconds_kept(task) == task.remaining_seconds

\* a reopen that starts the count again
reopened_seconds_zero(task) == 0

\* _undo_done: if task.remaining_seconds == 0:
\*                 task.remaining_seconds = task.duration_seconds
reopened_seconds(task) ==
    IF task.remaining_seconds = 0 THEN task.duration_seconds
    ELSE task.remaining_seconds

\* a reopen that saves the active store only
_undo_done_one_save(S, task) ==
    LET S1 == [S EXCEPT !.finished_tasks = Without(@, task.id)]
        secs == reopened_seconds(task)
        S2 == setattr(setattr(S1, task.id, "status", "pending"),
                      task.id, "remaining_seconds", secs)
        S3 == [S2 EXCEPT !.tasks =
                  Append(@, [task EXCEPT !.status = "pending", !.remaining_seconds = secs])]
    IN _render_tasks(save_tasks(S3, TASKS_PATH, S3.tasks))

\* _undo_done
_undo_done(S, task) ==
    LET S1 == [S EXCEPT !.finished_tasks = Without(@, task.id)]
        secs == reopened_seconds(task)
        S2 == setattr(setattr(S1, task.id, "status", "pending"),
                      task.id, "remaining_seconds", secs)
        S3 == [S2 EXCEPT !.tasks =
                  Append(@, [task EXCEPT !.status = "pending", !.remaining_seconds = secs])]
        S4 == save_tasks(S3, TASKS_PATH, S3.tasks)
        S5 == save_tasks(S4, FINISHED_PATH, S4.finished_tasks)
    IN _update_stats(_render_tasks(S5))

\* an archive that leaves the status as it was
_archive_task_status_kept(S, task) ==
    LET S1 == IF task.id \in DOMAIN S.timers THEN _stop_timer(S, task.id) ELSE S
        S2 == [S1 EXCEPT !.tasks = Without(@, task.id)]
        S4 == [S2 EXCEPT !.archived_tasks = Append(@, task)]
        S5 == save_tasks(S4, TASKS_PATH, S4.tasks)
        S6 == save_tasks(S5, ARCHIVE_PATH, S5.archived_tasks)
    IN _render_tasks(S6)

\* _archive_task
_archive_task(S, task) ==
    LET S1 == IF task.id \in DOMAIN S.timers THEN _stop_timer(S, task.id) ELSE S
        S2 == [S1 EXCEPT !.tasks = Without(@, task.id)]
        S3 == setattr(S2, task.id, "status", "archived")
        S4 == [S3 EXCEPT !.archived_tasks = Append(@, [task EXCEPT !.status = "archived"])]
        S5 == save_tasks(S4, TASKS_PATH, S4.tasks)
        S6 == save_tasks(S5, ARCHIVE_PATH, S5.archived_tasks)
    IN _update_stats(_render_tasks(S6))

\* a load of the active store that keeps every task
_load_active_tasks_unfiltered(fs, clock) == load_tasks(fs, TASKS_PATH, clock)

\* a restore that leaves the task in the archive as well
_restore_task_kept_in_archive(S, task) ==
    LET S2 == setattr(S, task.id, "status", "pending")
        S3 == [S2 EXCEPT !.tasks = Append(@, [task EXCEPT !.status = "pending"])]
        S4 == save_tasks(S3, TASKS_PATH, S3.tasks)
        S5 == save_tasks(S4, ARCHIVE_PATH, S4.archived_tasks)
    IN _render_tasks(S5)

\* a restore that forgets the elapsed time
_restore_task_reset(S, task) ==
    LET S1 == [S EXCEPT !.archived_tasks = Without(@, task.id)]
        S3 == [S1 EXCEPT !.tasks =
                  Append(@, [task EXCEPT !.status = "pending", !.remaining_seconds = 0])]
        S4 == save_tasks(S3, TASKS_PATH, S3.tasks)
        S5 == save_tasks(S4, ARCHIVE_PATH, S4.archived_tasks)
    IN _render_tasks(S5)

\* _restore_task
_restore_task(S, task) ==
    LET S1 == [S EXCEPT !.archived_tasks = Without(@, task.id)]
        S2 == setattr(S1, task.id, "status", "pending")
        S3 == [S2 EXCEPT !.tasks = Append(@, [task EXCEPT !.status = "pending"])]
        S4 == save_tasks(S3, TASKS_PATH, S3.tasks)
        S5 == save_tasks(S4, ARCHIVE_PATH, S4.archived_tasks)
    IN _render_tasks(_update_stats(S5))

\* a permanent delete that removes the task from every collection
_permanently_delete_anywhere(S, task, yes) ==
    LET S1 == [S EXCEPT !.archived_tasks = Without(@, task.id),
                        !.tasks = Without(@, task.id)]
    IN IF yes THEN save_tasks(S1, ARCHIVE_PATH, S1.archived_tasks) ELSE S

\* _permanently_delete_task; yes: the answer to messagebox.askyesno
_permanently_delete_task(S, task, yes) ==
    LET S1 == [S EXCEPT !.archived_tasks = Without(@, task.id)]
    IN IF yes THEN _update_stats(save_tasks(S1, ARCHIVE_PATH, S1.archived_tasks))
       ELSE S

\* a delete of the first finished task, whatever task was asked for
_permanently_delete_finished_first(S, task, yes) ==
    LET S1 == [S EXCEPT !.finished_tasks = Tail(@)]
    IN IF yes THEN save_tasks(S1, FINISHED_PATH, S1.finished_tasks) ELSE S

\* _permanently_delete_finished_task
_permanently_delete_finished_task(S, task, yes) ==
    LET S1 == [S EXCEPT !.finished_tasks = Without(@, task.id)]
    IN IF yes THEN _update_stats(save_tasks(S1, FINISHED_PATH, S1.finished_tasks))
       ELSE S

\* _delete_task
_delete_task(S, task) == _archive_task(S, task)

\* _toggle_timer (no widget calls it)
_toggle_timer(S, task) ==
    LET stopped == _stop_timer(S, task.id)
        refilled == IF task.remaining_seconds <= 0
                    THEN setattr(S, task.id, "remaining_seconds", task.duration_seconds)
                    ELSE S
    IN IF task.id \in DOMAIN S.timers
       THEN _render_tasks(save_tasks(stopped, TASKS_PATH, stopped.tasks))
       ELSE IF task.status = "done" THEN S
       ELSE _start_timer(refilled, task.id)

\* _reset_timer (no widget calls it)
_reset_timer(S, task) ==
    LET S1 == IF task.id \in DOMAIN S.timers THEN _stop_timer(S, task.id) ELSE S
        S2 == setattr(S1, task.id, "remaining_seconds", task.duration_seconds)
    IN _render_tasks(save_tasks(S2, TASKS_PATH, S2.tasks))

\* _load_archived_tasks
_load_archived_tasks(fs, clock) ==
    IF fs[ARCHIVE_PATH].kind # "missing" THEN load_tasks(fs, ARCHIVE_PATH, clock)
    ELSE <<>>

\* _load_finished_tasks
_load_finished_tasks(fs, clock) ==
    IF fs[FINISHED_PATH].kind # "missing" THEN load_tasks(fs, FINISHED_PATH, clock)
    ELSE <<>>

\* _load_active_tasks
_load_active_tasks(fs, clock) ==
    SelectSeq(load_tasks(fs, TASKS_PATH, clock),
              LAMBDA t : t.status \notin {"archived", "done"})

\* TodoApp.__init__: the three loads, empty timers, the widgets with their
\* initial values, and the first render
__init__(fs, clock) ==
    _render_tasks(_update_stats(
        [tasks |-> _load_active_tasks(fs, clock),
         archived_tasks |-> _load_archived_tasks(fs, clock),
         finished_tasks |-> _load_finished_tasks(fs, clock),
         timers |-> EmptyDict, after |-> EmptyDict, timer_labels |-> EmptyDict,
         search_var |-> <<>>, status_filter |-> "all", priority_filter |-> "all",
         stats_label |-> NoText, archive_count_label |-> NoText,
         files |-> fs, disk |-> "ok", now |-> clock]))

\* for tid in list(app.timers.keys()): app._stop_timer(tid)
RECURSIVE stop_timers(_, _)
stop_timers(S, ids) ==
    IF ids = {} THEN S
    ELSE LET tid == CHOOSE x \in ids : \A y \in ids : x <= y
         IN stop_timers(_stop_timer(S, tid), ids \ {tid})

\* a close that saves no store of its own
on_close_without_saves(S) == stop_timers(S, DOMAIN S.timers)

\* on_close: what the program leaves behind when root.destroy() ends it
on_close(S) ==
    LET S1 == stop_timers(S, DOMAIN S.timers)
        S2 == save_tasks(S1, TASKS_PATH, S1.tasks)
        S3 == save_tasks(S2, ARCHIVE_PATH, S2.archived_tasks)
    IN save_tasks(S3, FINISHED_PATH, S3.finished_tasks)

\* main: a TodoApp built on the files as they are
main(fs, clock) == __init__(fs, clock)

-----------------------------------------------------------------------------
(* The environment: what is on disk at startup and what the user enters.   *)

\* First run: no store exists.
FirstRun ==
    [f \in {TASKS_PATH, ARCHIVE_PATH, FINISHED_PATH} |-> MissingFile]

\* Stores left by an earlier version of the program, which counted a planned
\* duration down: records without the later fields, a duration of 1 second
\* and nothing remaining.
LegacyRun ==
    [f \in {TASKS_PATH, ARCHIVE_PATH, FINISHED_PATH} |->
        IF f = FINISHED_PATH
        THEN JsonFile(<<[id |-> 1, title |-> <<"c">>, status |-> "done",
                         created_at |-> <<"2020">>, duration_seconds |-> 1,
                         remaining_seconds |-> 0]>>)
        ELSE MissingFile]

\* Damaged stores: an active store that is no JSON (a write that was cut
\* short), and an archive store in which one of two records has an id that
\* is no number.
DamagedRun ==
    [f \in {TASKS_PATH, ARCHIVE_PATH, FINISHED_PATH} |->
        IF f = TASKS_PATH THEN CorruptFile
        ELSE IF f = ARCHIVE_PATH
        THEN JsonFile(<<[id |-> 3, title |-> <<"c">>, status |-> "archived",
                         created_at |-> <<"2020">>],
                        [id_text |-> <<"x">>, title |-> <<"c">>,
                         status |-> "archived", created_at |-> <<"2020">>]>>)
        ELSE MissingFile]

InitialFiles == {FirstRun, LegacyRun, DamagedRun}

\* An active store that holds a finished task beside a pending one, as a
\* version that kept all tasks in one store, or a run that was cut short,
\* leaves it; no archive and no finished store.
MixedRun ==
    [f \in {TASKS_PATH, ARCHIVE_PATH, FINISHED_PATH} |->
        IF f = TASKS_PATH
        THEN JsonFile(<<[id |-> 1, title |-> <<"c">>, status |-> "pending",
                         created_at |-> <<"2020">>],
                        [id |-> 2, title |-> <<"c">>, status |-> "done",
                         created_at |-> <<"2021">>]>>)
        ELSE MissingFile]

\* Stores the program finds that it has not written itself.
FoundFiles == {MixedRun}

\* What the user leaves in the add / edit window when pressing Save.
\* One form has a blank title, the other is filled in.
Forms ==
    { [title |-> <<" ">>, description |-> <<>>, prio_full |-> <<"medium">>,
       due |-> <<" ">>],
      [title |-> <<"B", " ">>, description |-> <<" ", "a">>,
       prio_full |-> <<"icon", "High">>, due |-> <<"d">>] }

\* What the user types into the search box.
SearchTexts == { <<>>, <<"C", " ">> }

\* The entries of the status menu and of the priority menu the user picks.
StatusChoices == {"menu Done"}

PriorityChoices == {"menu High"}

-----------------------------------------------------------------------------
(* The specification: the application driven through its widgets.  A       *)
(* button exists for a task only where the last render put one: Edit, Done *)
(* and Archive on the card of a task the filters let through, Restore and  *)
(* delete on an archive item, Reopen and delete on a finished item.  The   *)
(* detail and edit windows grab the input (grab_set), so one handler runs  *)
(* at a time; tick callbacks run between handlers.                         *)

\* the handler leaves the state S behind
Becomes(S) ==
    /\ tasks' = S.tasks
    /\ archived_tasks' = S.archived_tasks
    /\ finished_tasks' = S.finished_tasks
    /\ timers' = S.timers
    /\ after' = S.after
    /\ timer_labels' = S.timer_labels
    /\ search_var' = S.search_var
    /\ status_filter' = S.status_filter
    /\ priority_filter' = S.priority_filter
    /\ stats_label' = S.stats_label
    /\ archive_count_label' = S.archive_count_label
    /\ files' = S.files
    /\ disk' = S.disk
    /\ now' = S.now

Init ==
    \E fs \in InitialFiles :
        LET S == __init__(fs, 0)
        IN /\ tasks = S.tasks
           /\ archived_tasks = S.archived_tasks
           /\ finished_tasks = S.finished_tasks
           /\ timers = S.timers
           /\ after = S.after
           /\ timer_labels = S.timer_labels
           /\ search_var = S.search_var
           /\ status_filter = S.status_filter
           /\ priority_filter = S.priority_filter
           /\ stats_label = S.stats_label
           /\ archive_count_label = S.archive_count_label
           /\ files = S.files
           /\ disk = S.disk
           /\ now = S.now

\* "+ Add task", then Save
Create ==
    \E form \in Forms :
        /\ now < MaxNow
        /\ Becomes(on_save(St, NoTask, form))

\* the Edit button of a card, then Save
Edit ==
    \E task \in SeqToSet(visible_tasks(St)), form \in Forms :
        Becomes(on_save(St, task, form))

\* the Done button of a card
Complete ==
    \E task \in SeqToSet(visible_tasks(St)) :
        Becomes(_mark_done(St, task))

\* the Archive button of a card
Archive ==
    \E task \in SeqToSet(visible_tasks(St)) :
        Becomes(_archive_task(St, task))

\* the Reopen button of a finished item
Reopen ==
    \E task \in SeqToSet(finished_tasks) :
        Becomes(_undo_done(St, task))

\* the Restore button of an archive item
Restore ==
    \E task \in SeqToSet(archived_tasks) :
        Becomes(_restore_task(St, task))

\* the delete button of an archive item, and the answer to the question
DeleteArchived ==
    \E task \in SeqToSet(archived_tasks), yes \in BOOLEAN :
        Becomes(_permanently_delete_task(St, task, yes))

\* the delete button of a finished item, and the answer to the question
DeleteFinished ==
    \E task \in SeqToSet(finished_tasks), yes \in BOOLEAN :
        Becomes(_permanently_delete_finished_task(St, task, yes))

\* the seconds counted for the tasks of a list, together
RECURSIVE Seconds(_)
Seconds(list) ==
    IF list = <<>> THEN 0 ELSE Head(list).remaining_seconds + Seconds(Tail(list))

\* Tk fires one scheduled tick callback
Tick ==
    \E id \in DOMAIN after, recorded \in BOOLEAN :
        /\ recorded =>
              id \in DOMAIN timers /\ timers[id] = "pending"
        /\ ~recorded =>
              after[id] > (IF id \in DOMAIN timers /\ timers[id] = "pending"
                           THEN 1 ELSE 0)
        /\ Seconds(tasks \o archived_tasks \o finished_tasks) < MaxSecs
        /\ Becomes(tick(St, id, recorded))

\* the user changes the search text: the write trace on search_var renders
Search ==
    \E text \in SearchTexts :
        /\ text # search_var
        /\ Becomes(_render_tasks([St EXCEPT !.search_var = text]))

\* the user picks an entry of the status menu
FilterStatus ==
    \E choice \in StatusChoices :
        /\ status_map(choice) \in {"all", "pending", "done"}
        /\ Becomes(_render_tasks([St EXCEPT !.status_filter = choice]))

\* the user picks an entry of the priority menu
FilterPriority ==
    \E choice \in PriorityChoices :
        /\ prio_map(choice) \in {"all", "high", "medium", "low"}
        /\ Becomes(_render_tasks([St EXCEPT !.priority_filter = choice]))

Next ==
    \/ Create
    \/ Edit
    \/ Complete
    \/ Archive
    \/ Reopen
    \/ Restore
    \/ DeleteArchived
    \/ DeleteFinished
    \/ Tick
    \/ Search
    \/ FilterStatus
    \/ FilterPriority

Spec == Init /\ [][Next]_vars

\* The application with Tk's timer callbacks among its steps: the
\* specification the statements about timers and ticks are checked under.
SpecTimers == Init /\ [][Next]_vars

\* a start on stores the program has not written
InitLoad ==
    \E fs \in FoundFiles :
        LET S == __init__(fs, 0)
        IN /\ tasks = S.tasks
           /\ archived_tasks = S.archived_tasks
           /\ finished_tasks = S.finished_tasks
           /\ timers = S.timers
           /\ after = S.after
           /\ timer_labels = S.timer_labels
           /\ search_var = S.search_var
           /\ status_filter = S.status_filter
           /\ priority_filter = S.priority_filter
           /\ stats_label = S.stats_label
           /\ archive_count_label = S.archive_count_label
           /\ files = S.files
           /\ disk = S.disk
           /\ now = S.now

\* The application started on stores it has not written.
SpecLoad == InitLoad /\ [][Next]_vars

\* The ways a write can fail: the file may not be opened for writing, or
\* the disk has no room left.
Failures == {"denied", "full"}

\* The conditions the disk goes through in SpecDisk.
DiskConditions == {"ok", "full"}

\* the disk fills up, or has room again
DiskChanges ==
    \E condition \in DiskConditions :
        /\ condition # disk
        /\ disk' = condition
        /\ UNCHANGED <<tasks, archived_tasks, finished_tasks, timers, after,
                       timer_labels, search_var, status_filter,
                       priority_filter, stats_label, archive_count_label,
                       files, now>>

NextDisk ==
    \/ Next
    \/ DiskChanges

\* a first run
InitDisk ==
    LET S == __init__(FirstRun, 0)
    IN /\ tasks = S.tasks
       /\ archived_tasks = S.archived_tasks
       /\ finished_tasks = S.finished_tasks
       /\ timers = S.timers
       /\ after = S.after
       /\ timer_labels = S.timer_labels
       /\ search_var = S.search_var
       /\ status_filter = S.status_filter
       /\ priority_filter = S.priority_filter
       /\ stats_label = S.stats_label
       /\ archive_count_label = S.archive_count_label
       /\ files = S.files
       /\ disk = S.disk
       /\ now = S.now

\* The application, from its first run, on a disk that can fill up.
SpecDisk == InitDisk /\ [][NextDisk]_vars

-----------------------------------------------------------------------------
(* Properties.  St is the current state, and a handler applied to St is    *)
(* the state the handler leaves behind when it is called now; a property   *)
(* of a handler is stated of its result in every reachable state.          *)

\* the number of places of a list that hold a task with this id
Occurrences(list, id) == Cardinality({i \in DOMAIN list : list[i].id = id})

AllIds(S) == Ids(S.tasks) \cup Ids(S.archived_tasks) \cup Ids(S.finished_tasks)

\* each id is held once, by one collection
OneCollection(S) ==
    \A id \in AllIds(S) :
        Occurrences(S.tasks, id) + Occurrences(S.archived_tasks, id)
            + Occurrences(S.finished_tasks, id) = 1

Collections(S) == <<S.tasks, S.archived_tasks, S.finished_tasks>>

\* the forms with a title
ValidForms == {f \in Forms : strip(f.title) # <<>>}

TaskFields ==
    {"id", "title", "description", "status", "priority", "created_at",
     "due_date", "duration_seconds", "remaining_seconds", "completed_at"}

\* the file at path holds the list, record for record and field for field
Stored(S, path, list) ==
    /\ S.files[path].kind = "ok"
    /\ Len(S.files[path].data) = Len(list)
    /\ \A i \in DOMAIN list :
          /\ DOMAIN S.files[path].data[i] = TaskFields
          /\ \A f \in TaskFields : S.files[path].data[i][f] = list[i][f]

\* a timer runs for the task: self.timers records a scheduled tick
Running(S, id) ==
    /\ id \in DOMAIN S.timers
    /\ S.timers[id] = "pending"
    /\ get(S.after, id, 0) >= 1

\* C1: in every reachable state each task id is held by exactly one of the
\* three collections active, archived and finished, and once in it.
C1_OneCollection == OneCollection(St)

\* the reopened legacy task is active while the created task is archived
C1_Witness ==
    /\ \E i \in DOMAIN tasks : tasks[i].duration_seconds = 1
    /\ \E i \in DOMAIN archived_tasks : archived_tasks[i].duration_seconds = 0

\* C2: in every reachable state a task of the active collection has status
\* pending, a task of the finished collection has status done and a task of
\* the archived collection has status archived (so a status names the
\* collection that holds the task).
C2_StatusMatchesCollection ==
    /\ \A i \in DOMAIN tasks : tasks[i].status = "pending"
    /\ \A i \in DOMAIN finished_tasks : finished_tasks[i].status = "done"
    /\ \A i \in DOMAIN archived_tasks : archived_tasks[i].status = "archived"

\* a restored task is active beside a completed one
C2_Witness ==
    /\ files[ARCHIVE_PATH].kind = "ok"
    /\ archived_tasks = <<>>
    /\ \E i \in DOMAIN tasks : tasks[i].status = "pending"
    /\ \E i \in DOMAIN finished_tasks :
          finished_tasks[i].status = "done" /\ finished_tasks[i].duration_seconds = 0

\* C3: a transition called for a task whose collection does not allow it
\* (complete or archive of a task that is not active, reopen of a task that
\* is not finished, restore of a task that is not archived) changes none of
\* the three collections and leaves each id in one collection.
C3_InvalidTransitionIsNoOp ==
    /\ \A t \in SeqToSet(archived_tasks) \cup SeqToSet(finished_tasks) :
          /\ Collections(_mark_done(St, t)) = Collections(St)
          /\ Collections(_archive_task(St, t)) = Collections(St)
          /\ OneCollection(_mark_done(St, t))
          /\ OneCollection(_archive_task(St, t))
    /\ \A t \in SeqToSet(tasks) \cup SeqToSet(archived_tasks) :
          /\ Collections(_undo_done(St, t)) = Collections(St)
          /\ OneCollection(_undo_done(St, t))
    /\ \A t \in SeqToSet(tasks) \cup SeqToSet(finished_tasks) :
          /\ Collections(_restore_task(St, t)) = Collections(St)
          /\ OneCollection(_restore_task(St, t))

\* C4: the id of a newly created task is 1 when the three collections are
\* empty and otherwise one more than the largest id of their union, so it
\* is the id of no task of any collection, archived ones included.
C4_NewIdIsFresh ==
    \A form \in ValidForms :
        LET S2 == on_save(St, NoTask, form)
            new == S2.tasks[Len(S2.tasks)]
        IN /\ Len(S2.tasks) = Len(tasks) + 1
           /\ AllIds(St) = {} => new.id = 1
           /\ AllIds(St) # {} =>
                 new.id - 1 \in AllIds(St) /\ \A id \in AllIds(St) : id < new.id
           /\ new.id \notin AllIds(St)

\* a task was created with id 2 while the task with id 1 sits in the archive
C4_Witness ==
    /\ \E i \in DOMAIN archived_tasks : archived_tasks[i].id = 1
    /\ \E i \in DOMAIN tasks :
          tasks[i].id = 2 /\ tasks[i].created_at = isoformat(0)

\* C5: create with a non-empty title appends one task to the active
\* collection, with status pending, no elapsed time and no duration, leaves
\* the tasks before it and the archived and finished collections as they
\* were, and leaves the active store holding the active collection.
C5_Create ==
    \A form \in ValidForms :
        LET S2 == on_save(St, NoTask, form)
            new == S2.tasks[Len(S2.tasks)]
        IN /\ Len(S2.tasks) = Len(tasks) + 1
           /\ SubSeq(S2.tasks, 1, Len(tasks)) = tasks
           /\ new.status = "pending"
           /\ new.remaining_seconds = 0
           /\ new.duration_seconds = 0
           /\ new.title # <<>>
           /\ S2.archived_tasks = archived_tasks
           /\ S2.finished_tasks = finished_tasks
           /\ Stored(S2, TASKS_PATH, S2.tasks)

\* the created task follows the reopened legacy task, and is stored
C5_Witness ==
    /\ Len(tasks) = 2
    /\ tasks[1].duration_seconds = 1
    /\ tasks[2].created_at = isoformat(0)
    /\ tasks[2].status = "pending"
    /\ tasks[2].remaining_seconds = 0
    /\ Stored(St, TASKS_PATH, tasks)

\* C6: when create returns and when reopen returns a timer runs for the
\* task (its id is in timers with a tick scheduled), whatever the search
\* text, the status filter and the priority filter are.
C6_TimerRunsAfterCreateAndReopen ==
    /\ \A form \in ValidForms :
          LET S2 == on_save(St, NoTask, form)
          IN Running(S2, S2.tasks[Len(S2.tasks)].id)
    /\ \A t \in SeqToSet(finished_tasks) : Running(_undo_done(St, t), t.id)

\* a task was created while the status menu showed only done tasks: it is
\* active and no timer is recorded or scheduled for it
C6_Witness ==
    /\ status_map(status_filter) = "done"
    /\ \E i \in DOMAIN tasks :
          /\ tasks[i].created_at = isoformat(0)
          /\ tasks[i].status = "pending"
          /\ tasks[i].id \notin DOMAIN timers
          /\ tasks[i].id \notin DOMAIN after

\* C7: complete of an active task with elapsed time n >= 0 takes it out of
\* the active collection and appends it to the finished collection with
\* status done and remaining_seconds n, leaves no timer and no scheduled
\* tick for it, and changes no other task.
C7_Complete ==
    \A t \in SeqToSet(tasks) :
        LET S2 == _mark_done(St, t)
        IN /\ t.remaining_seconds >= 0
           /\ S2.tasks = Without(tasks, t.id)
           /\ Len(S2.tasks) = Len(tasks) - 1
           /\ S2.finished_tasks = Append(finished_tasks, [t EXCEPT !.status = "done"])
           /\ S2.archived_tasks = archived_tasks
           /\ t.id \notin DOMAIN S2.timers
           /\ t.id \notin DOMAIN S2.after

\* a created task was completed after a second had been counted for it
C7_Witness ==
    /\ \E i \in DOMAIN finished_tasks :
          /\ finished_tasks[i].remaining_seconds = 1
          /\ finished_tasks[i].duration_seconds = 0
          /\ finished_tasks[i].status = "done"
          /\ finished_tasks[i].id \notin DOMAIN timers
          /\ finished_tasks[i].id \notin DOMAIN after
    /\ tasks # <<>>

\* C8: archive and then restore of an active task puts it back: it is in
\* the active collection once and in no other, it is the task it was before
\* the archive in every field (status pending included), and the archived
\* collection is what it was before.
C8_ArchiveThenRestore ==
    \A t \in SeqToSet(tasks) :
        LET S1 == _archive_task(St, t)
            a == S1.archived_tasks[Len(S1.archived_tasks)]
            S2 == _restore_task(S1, a)
        IN /\ a.id = t.id /\ a.status = "archived"
           /\ t.id \notin Ids(S1.tasks)
           /\ Occurrences(S2.tasks, t.id) = 1
           /\ \A i \in DOMAIN S2.tasks : S2.tasks[i].id = t.id => S2.tasks[i] = t
           /\ t.id \notin Ids(S2.archived_tasks) \cup Ids(S2.finished_tasks)
           /\ S2.archived_tasks = archived_tasks
           /\ S2.finished_tasks = finished_tasks
           /\ SeqToSet(S2.tasks) = SeqToSet(tasks)

\* an archive was written and emptied again, and the active task had a
\* second counted
C8_Witness ==
    /\ files[ARCHIVE_PATH].kind = "ok"
    /\ archived_tasks = <<>>
    /\ files[FINISHED_PATH].kind = "missing"
    /\ \E i \in DOMAIN tasks :
          /\ tasks[i].remaining_seconds = 1
          /\ tasks[i].duration_seconds = 0
          /\ tasks[i].status = "pending"

\* C9: reopen of a finished task takes it out of the finished collection
\* and appends it to the active collection with status pending; its
\* remaining_seconds stays unless it is 0, and then becomes
\* duration_seconds; so complete and then reopen of an active task with
\* duration_seconds 0 leaves its elapsed time as it was.
C9_Reopen ==
    /\ \A t \in SeqToSet(finished_tasks) :
          LET S2 == _undo_done(St, t)
              secs == IF t.remaining_seconds = 0 THEN t.duration_seconds
                      ELSE t.remaining_seconds
          IN /\ S2.finished_tasks = Without(finished_tasks, t.id)
             /\ Len(S2.finished_tasks) = Len(finished_tasks) - 1
             /\ S2.tasks = Append(tasks, [t EXCEPT !.status = "pending",
                                                   !.remaining_seconds = secs])
             /\ S2.archived_tasks = archived_tasks
    /\ \A t \in SeqToSet(tasks) :
          LET S1 == _mark_done(St, t)
              d == S1.finished_tasks[Len(S1.finished_tasks)]
              S2 == _undo_done(S1, d)
              r == S2.tasks[Len(S2.tasks)]
          IN t.duration_seconds = 0 =>
                 /\ r.id = t.id
                 /\ r.status = "pending"
                 /\ r.remaining_seconds = t.remaining_seconds

\* the legacy task was reopened and got its duration back, and the finished
\* store was written with nothing left in it
C9_Witness ==
    /\ finished_tasks = <<>>
    /\ files[FINISHED_PATH].kind = "ok"
    /\ files[FINISHED_PATH].data = <<>>
    /\ \E i \in DOMAIN tasks :
          /\ tasks[i].duration_seconds = 1
          /\ tasks[i].remaining_seconds = 1
          /\ tasks[i].status = "pending"

\* P holds of the state each lifecycle operation (create, edit, complete,
\* archive, reopen, restore, permanent delete) a widget offers would leave
\* behind when called now
AfterLifecycle(P(_)) ==
    /\ \A form \in Forms : P(on_save(St, NoTask, form))
    /\ \A t \in SeqToSet(visible_tasks(St)) :
          /\ \A form \in Forms : P(on_save(St, t, form))
          /\ P(_mark_done(St, t))
          /\ P(_archive_task(St, t))
    /\ \A t \in SeqToSet(finished_tasks) :
          /\ P(_undo_done(St, t))
          /\ \A yes \in BOOLEAN : P(_permanently_delete_finished_task(St, t, yes))
    /\ \A t \in SeqToSet(archived_tasks) :
          /\ P(_restore_task(St, t))
          /\ \A yes \in BOOLEAN : P(_permanently_delete_task(St, t, yes))

\* P holds of the state each handler and each tick would leave behind, a
\* close followed by the next start among them
AfterWidget(P(_)) ==
    /\ AfterLifecycle(P)
    /\ \A id \in DOMAIN after, recorded \in BOOLEAN : P(tick(St, id, recorded))
    /\ P(main(on_close(St).files, now))

\* C10: a permanent delete called for a task of the active collection
\* changes no collection, whatever the user answers; delete of an active
\* task archives it; and whatever handler runs, a task that is active
\* before it is afterwards active, archived or finished.
C10_NoDeleteOfActive ==
    /\ \A t \in SeqToSet(tasks) :
          /\ \A yes \in BOOLEAN :
                /\ Collections(_permanently_delete_task(St, t, yes)) = Collections(St)
                /\ Collections(_permanently_delete_finished_task(St, t, yes))
                      = Collections(St)
          /\ t.id \in Ids(_delete_task(St, t).archived_tasks)
    /\ AfterWidget(LAMBDA S2 : Ids(tasks) \subseteq AllIds(S2))

\* an active task beside an archived one, the archive store written
C10_Witness ==
    /\ tasks # <<>>
    /\ archived_tasks # <<>>
    /\ files[ARCHIVE_PATH].kind = "ok"
    /\ Stored(St, ARCHIVE_PATH, archived_tasks)

\* C11: a confirmed permanent delete of an archived task removes that task
\* and no other from the archived collection, leaves the active and the
\* finished collection as they were and writes the archive store only; a
\* confirmed permanent delete of a finished task does the same for the
\* finished collection and the finished store; a declined one changes
\* nothing.
C11_PermanentDelete ==
    /\ \A t \in SeqToSet(archived_tasks) :
          LET S2 == _permanently_delete_task(St, t, TRUE)
          IN /\ S2.archived_tasks = Without(archived_tasks, t.id)
             /\ Len(S2.archived_tasks) = Len(archived_tasks) - 1
             /\ S2.tasks = tasks
             /\ S2.finished_tasks = finished_tasks
             /\ Stored(S2, ARCHIVE_PATH, S2.archived_tasks)
             /\ S2.files[TASKS_PATH] = files[TASKS_PATH]
             /\ S2.files[FINISHED_PATH] = files[FINISHED_PATH]
             /\ _permanently_delete_task(St, t, FALSE) = St
    /\ \A t \in SeqToSet(finished_tasks) :
          LET S2 == _permanently_delete_finished_task(St, t, TRUE)
          IN /\ S2.finished_tasks = Without(finished_tasks, t.id)
             /\ Len(S2.finished_tasks) = Len(finished_tasks) - 1
             /\ S2.tasks = tasks
             /\ S2.archived_tasks = archived_tasks
             /\ Stored(S2, FINISHED_PATH, S2.finished_tasks)
             /\ S2.files[TASKS_PATH] = files[TASKS_PATH]
             /\ S2.files[ARCHIVE_PATH] = files[ARCHIVE_PATH]
             /\ _permanently_delete_finished_task(St, t, FALSE) = St

\* the task created with id 2 is left and the legacy task with id 1, which
\* no handler but a permanent delete can remove, is in no collection
C11_Witness ==
    /\ 2 \in AllIds(St)
    /\ 1 \notin AllIds(St)
    /\ \A t \in AllTasks(St) : t.duration_seconds = 0

\* the fields of a task that the edit window writes
EditedFields == {"title", "description", "priority", "due_date"}

\* C12: edit (Save in the edit window of a task that has a card, with a
\* title) changes only title, description, priority and due_date of that
\* task: its other fields, its place in the active collection, the other
\* tasks, the archived and finished collections, the timers map and the
\* scheduled ticks are as before.
C12_EditFrame ==
    \A t \in SeqToSet(visible_tasks(St)), form \in ValidForms :
        LET S2 == on_save(St, t, form)
        IN /\ Len(S2.tasks) = Len(tasks)
           /\ \A i \in DOMAIN tasks :
                 /\ tasks[i].id # t.id => S2.tasks[i] = tasks[i]
                 /\ \A f \in TaskFields \ EditedFields :
                       S2.tasks[i][f] = tasks[i][f]
                 /\ tasks[i].id = t.id =>
                       /\ S2.tasks[i].title = strip(form.title)
                       /\ S2.tasks[i].description = strip(form.description)
           /\ S2.archived_tasks = archived_tasks
           /\ S2.finished_tasks = finished_tasks
           /\ S2.timers = timers
           /\ S2.after = after
           /\ S2.now = now

\* the reopened legacy task was edited: it has the title and the priority
\* of the form, and its own creation time, duration and elapsed time
C12_Witness ==
    \E i \in DOMAIN tasks :
        /\ tasks[i].title = <<"B">>
        /\ tasks[i].priority = "high"
        /\ tasks[i].created_at = <<"2020">>
        /\ tasks[i].duration_seconds = 1
        /\ tasks[i].remaining_seconds = 1
        /\ tasks[i].id \in DOMAIN timers

\* the forms whose title holds nothing but blanks
BlankForms == {f \in Forms : \A i \in DOMAIN f.title : f.title[i] = " "}

\* C13: Save with a title that is empty after trimming, in the add window
\* or in the edit window of a task, changes nothing: no task, no
\* collection, no timer and no store (the state is the one before).
C13_BlankTitleRejected ==
    \A form \in BlankForms :
        /\ on_save(St, NoTask, form) = St
        /\ \A t \in SeqToSet(tasks) : on_save(St, t, form) = St

\* a task with a card has counted a second the active store does not hold
\* yet, and a Save with the blank title leaves the store as it is
C13_Witness ==
    /\ BlankForms # {}
    /\ visible_tasks(St) # <<>>
    /\ files[TASKS_PATH].kind = "ok"
    /\ Len(files[TASKS_PATH].data) = Len(tasks)
    /\ \E i \in DOMAIN tasks :
          /\ files[TASKS_PATH].data[i].id = tasks[i].id
          /\ files[TASKS_PATH].data[i].remaining_seconds = 0
          /\ tasks[i].remaining_seconds = 1
    /\ \A form \in BlankForms :
          on_save(St, Head(visible_tasks(St)), form).files = files

\* C14: in every reachable state each id of the timers map, and each id a
\* tick is scheduled for, is the id of a task of the active collection; and
\* complete or archive of an active task leaves neither a timers entry nor
\* a scheduled tick for it when it returns.
C14_NoDanglingTimer ==
    /\ DOMAIN timers \subseteq Ids(tasks)
    /\ DOMAIN after \subseteq Ids(tasks)
    /\ \A t \in SeqToSet(tasks) :
          /\ t.id \notin DOMAIN _mark_done(St, t).timers
          /\ t.id \notin DOMAIN _mark_done(St, t).after
          /\ t.id \notin DOMAIN _archive_task(St, t).timers
          /\ t.id \notin DOMAIN _archive_task(St, t).after

\* a task was archived after a second had been counted for it: no timer
\* and no tick is left for it, while the timer of an active task runs
C14_Witness ==
    /\ \E i \in DOMAIN archived_tasks :
          /\ archived_tasks[i].remaining_seconds = 1
          /\ archived_tasks[i].duration_seconds = 0
          /\ archived_tasks[i].id \notin DOMAIN timers \cup DOMAIN after
    /\ \E i \in DOMAIN tasks : Running(St, tasks[i].id)

\* C15: a tick scheduled for a task adds exactly 1 to the remaining_seconds
\* of that task in the active collection and changes no other field of it,
\* no other task, no collection and no store; the archived and the finished
\* collection are the same after any tick.
C15_TickFrame ==
    \A id \in DOMAIN after, recorded \in BOOLEAN :
        LET S2 == tick(St, id, recorded)
        IN /\ Len(S2.tasks) = Len(tasks)
           /\ \E i \in DOMAIN tasks : tasks[i].id = id
           /\ \A i \in DOMAIN tasks :
                 /\ tasks[i].id = id =>
                       S2.tasks[i] = [tasks[i] EXCEPT !.remaining_seconds =
                                          tasks[i].remaining_seconds + 1]
                 /\ tasks[i].id # id => S2.tasks[i] = tasks[i]
           /\ S2.archived_tasks = archived_tasks
           /\ S2.finished_tasks = finished_tasks
           /\ S2.files = files

\* a second was counted for the created task, which the active store does
\* not hold yet, and the legacy task in the finished collection is as it
\* was loaded
C15_Witness ==
    /\ Len(tasks) = 1
    /\ Len(files[TASKS_PATH].data) = 1
    /\ tasks[1].duration_seconds = 0
    /\ tasks[1].remaining_seconds = 1
    /\ files[TASKS_PATH].data[1].remaining_seconds = 0
    /\ Running(St, tasks[1].id)
    /\ Len(finished_tasks) = 1
    /\ finished_tasks[1].duration_seconds = 1
    /\ finished_tasks[1].remaining_seconds = 0

\* C16: the remaining_seconds of every task is >= 0 in every reachable
\* state; no handler a widget calls and no tick leaves a task with a
\* smaller remaining_seconds than it had; and the resets (_reset_timer,
\* _toggle_timer), which may lower it, leave it >= 0.
C16_SecondsNeverDecrease ==
    /\ \A t \in AllTasks(St) : t.remaining_seconds >= 0
    /\ AfterWidget(LAMBDA S2 :
          \A t \in AllTasks(St), u \in AllTasks(S2) :
              u.id = t.id => u.remaining_seconds >= t.remaining_seconds)
    /\ \A t \in SeqToSet(tasks) :
          /\ \A u \in AllTasks(_reset_timer(St, t)) : u.remaining_seconds >= 0
          /\ \A u \in AllTasks(_toggle_timer(St, t)) : u.remaining_seconds >= 0

\* both tasks are active with a second each: the created task by a tick,
\* the legacy task by the reopen that set its duration, and the finished
\* store was emptied
C16_Witness ==
    /\ finished_tasks = <<>>
    /\ files[FINISHED_PATH].kind = "ok"
    /\ \E i, j \in DOMAIN tasks :
          /\ tasks[i].id = 2
          /\ tasks[i].duration_seconds = 0
          /\ tasks[i].remaining_seconds = 1
          /\ tasks[j].id = 1
          /\ tasks[j].duration_seconds = 1
          /\ tasks[j].remaining_seconds = 1

\* C17: _stop_timer called twice in a row for an id leaves the same state
\* (timers, scheduled ticks, collections, stores) as one call, for the id
\* of a task with or without a timer and for an id no task has; one call
\* leaves no timers entry and no scheduled tick for the id, the other
\* timers and the collections as they were and the active collection in
\* the active store.
C17_StopIdempotent ==
    \A id \in AllIds(St) \cup DOMAIN timers \cup {0} :
        LET S1 == _stop_timer(St, id)
        IN /\ _stop_timer(S1, id) = S1
           /\ id \notin DOMAIN S1.timers
           /\ id \notin DOMAIN S1.after
           /\ \A k \in DOMAIN timers \ {id} :
                 /\ k \in DOMAIN S1.timers /\ S1.timers[k] = timers[k]
                 /\ get(S1.after, k, 0) = get(after, k, 0)
           /\ Collections(S1) = Collections(St)
           /\ Stored(S1, TASKS_PATH, tasks)
           /\ S1.files[ARCHIVE_PATH] = files[ARCHIVE_PATH]
           /\ S1.files[FINISHED_PATH] = files[FINISHED_PATH]

\* the timer of a completed task was stopped and the timer of an active
\* task runs: a stop for the completed task is a second stop in a row
C17_Witness ==
    /\ \E i \in DOMAIN finished_tasks :
          /\ finished_tasks[i].duration_seconds = 0
          /\ finished_tasks[i].remaining_seconds = 1
          /\ finished_tasks[i].id \notin DOMAIN timers
          /\ _stop_timer(St, finished_tasks[i].id) = St
    /\ \E i \in DOMAIN tasks : Running(St, tasks[i].id)

\* the store at path holds the list: reading it gives the list
Holds(S, path, list) == load_tasks(S.files, path, S.now) = list

\* the same tasks in the same order, but for their remaining_seconds
SameButSeconds(l1, l2) ==
    /\ Len(l1) = Len(l2)
    /\ \A i \in DOMAIN l1 :
          \A f \in TaskFields \ {"remaining_seconds"} : l1[i][f] = l2[i][f]

C19_CloseStopsAndSaves ==
    LET S2 == on_close(St)
    IN /\ DOMAIN S2.timers = {}
       /\ DOMAIN S2.after = {}
       /\ Collections(S2) = Collections(St)
       /\ Stored(S2, TASKS_PATH, tasks)
       /\ Stored(S2, ARCHIVE_PATH, archived_tasks)
       /\ Stored(S2, FINISHED_PATH, finished_tasks)

\* a timer runs, the second it counted is in the active collection and not
\* yet in the active store, and the finished store still holds the legacy
\* record as it was found: on_close stops the timer and writes all of it
C19_Witness ==
    /\ \E i \in DOMAIN tasks :
          /\ Running(St, tasks[i].id)
          /\ tasks[i].remaining_seconds = 1
    /\ ~Stored(St, TASKS_PATH, tasks)
    /\ finished_tasks # <<>>
    /\ ~Stored(St, FINISHED_PATH, finished_tasks)
    /\ DOMAIN on_close(St).timers = {}
    /\ Stored(on_close(St), TASKS_PATH, tasks)
    /\ Stored(on_close(St), FINISHED_PATH, finished_tasks)

\* the store cannot be read: it is no JSON, or one of its records cannot be
\* decoded
Unreadable(f) ==
    \/ f.kind = "corrupt"
    \/ f.kind = "ok" /\ \E i \in DOMAIN f.data : "id_text" \in DOMAIN f.data[i]

\* the collection the program keeps in the store at this path
CollectionOf(S, path) ==
    IF path = TASKS_PATH THEN S.tasks
    ELSE IF path = ARCHIVE_PATH THEN S.archived_tasks
    ELSE S.finished_tasks

\* C20: load_tasks gives the empty sequence for a store that does not
\* exist, for a store that is no JSON and for a store with a record that
\* cannot be decoded; as long as a store is in one of these states its
\* collection is empty, and a save of the collection leaves the store
\* readable and holding the collection.
C20_LoadNeverRaises ==
    \A path \in {TASKS_PATH, ARCHIVE_PATH, FINISHED_PATH} :
        /\ (files[path].kind = "missing" \/ Unreadable(files[path])) =>
              /\ load_tasks(files, path, now) = <<>>
              /\ CollectionOf(St, path) = <<>>
        /\ LET S2 == save_tasks(St, path, CollectionOf(St, path))
           IN /\ ~Unreadable(S2.files[path])
              /\ Stored(S2, path, CollectionOf(St, path))

\* the active store that was no JSON was overwritten by the save of a
\* created task, and the archive store still has the record that cannot be
\* decoded, with nothing loaded from it
C20_Witness ==
    /\ tasks # <<>>
    /\ Stored(St, TASKS_PATH, tasks)
    /\ Unreadable(files[ARCHIVE_PATH])
    /\ Len(files[ARCHIVE_PATH].data) = 2
    /\ archived_tasks = <<>>

StorePaths == {TASKS_PATH, ARCHIVE_PATH, FINISHED_PATH}

\* C21: at every point of a save a reader of the store finds the complete
\* content the store had before the save or the complete new content, and
\* so no store is ever found empty or cut off, a save that failed part-way
\* included.
C21_SaveIsAtomic ==
    /\ \A path \in StorePaths :
          LET list == CollectionOf(St, path)
              points == save_points(files[path], list)
          IN \A k \in DOMAIN points :
                points[k] \in {files[path], JsonFile(to_dicts(list))}
    /\ \A path \in StorePaths : files[path].kind # "corrupt"

\* a task was created and, on the full disk, archived: the save of the
\* archive left the archive store empty while the task is in the archived
\* collection
C21_Witness ==
    /\ disk = "full"
    /\ archived_tasks # <<>>
    /\ files[ARCHIVE_PATH] = CutFile(<<>>)

\* the two states differ in nothing but the stores and the disk
SameMemory(S1, S2) ==
    \A field \in DOMAIN S1 \ {"files", "disk"} : S1[field] = S2[field]

\* what each operation that saves leaves behind when it is called in S
Saved(S) ==
    {on_save(S, NoTask, form) : form \in Forms}
        \cup {on_save(S, t, form) : t \in SeqToSet(S.tasks), form \in Forms}
        \cup {_mark_done(S, t) : t \in SeqToSet(S.tasks)}
        \cup {_archive_task(S, t) : t \in SeqToSet(S.tasks)}
        \cup {_undo_done(S, t) : t \in SeqToSet(S.finished_tasks)}
        \cup {_restore_task(S, t) : t \in SeqToSet(S.archived_tasks)}
        \cup {_permanently_delete_task(S, t, TRUE) : t \in SeqToSet(S.archived_tasks)}
        \cup {_permanently_delete_finished_task(S, t, TRUE) :
                  t \in SeqToSet(S.finished_tasks)}
        \cup {_stop_timer(S, id) : id \in DOMAIN S.timers}
        \cup {on_close(S)}

\* C22: an operation whose saves fail (the store may not be written, or
\* the disk is full) returns with the collections, the timers and every
\* other part of the memory as the same operation leaves them when its
\* saves succeed; no store gets the new content (it is as it was, or
\* empty); and once the disk is in order, an operation that changes a
\* collection leaves the store of that collection holding it.
C22_WriteFailureKeepsMemory ==
    /\ \A failure \in Failures :
          LET failed == Saved([St EXCEPT !.disk = failure])
              written == Saved([St EXCEPT !.disk = "ok"])
          IN /\ \A S1 \in failed : \E S2 \in written : SameMemory(S1, S2)
             /\ \A S2 \in written : \E S1 \in failed : SameMemory(S1, S2)
             /\ \A S1 \in failed, path \in StorePaths :
                   S1.files[path] \in {files[path], CutFile(<<>>)}
    /\ disk = "ok" =>
          AfterLifecycle(LAMBDA S2 :
              \A path \in StorePaths :
                  CollectionOf(S2, path) # CollectionOf(St, path) =>
                      Stored(S2, path, CollectionOf(S2, path)))

\* a task was archived and restored while the disk was full, which left
\* the stores empty, and completed after the disk had room again: the
\* active and the finished store hold their collections, and the archive
\* store, not saved since, is still empty
C22_Witness ==
    /\ disk = "ok"
    /\ files[ARCHIVE_PATH] = CutFile(<<>>)
    /\ archived_tasks = <<>>
    /\ finished_tasks # <<>>
    /\ Stored(St, FINISHED_PATH, finished_tasks)
    /\ Stored(St, TASKS_PATH, tasks)

\* the tasks of the list with a completion time set
Completed(list) ==
    [i \in DOMAIN list |-> [list[i] EXCEPT !.completed_at = isoformat(now)]]

\* C23: save_tasks of a collection followed by load_tasks of the same store
\* gives the collection back: as many tasks, in the same order, each equal
\* in its ten fields, a due_date and a completed_at of None staying None
\* and a completed_at that is set staying as it is.
C23_RoundTrip ==
    \A path \in StorePaths :
        \A list \in {CollectionOf(St, path), Completed(CollectionOf(St, path))} :
            LET back == load_tasks(save_tasks(St, path, list).files, path, now)
            IN /\ Len(back) = Len(list)
               /\ \A i \in DOMAIN list :
                     /\ DOMAIN back[i] = TaskFields
                     /\ \A f \in TaskFields : back[i][f] = list[i][f]

\* the active collection holds the reopened legacy task, which has no due
\* date, and a created task, which has one, none of them with a completion
\* time; it was saved, and the store read back gives the collection
C23_Witness ==
    /\ Len(tasks) = 2
    /\ \E i \in DOMAIN tasks :
          tasks[i].due_date = None /\ tasks[i].remaining_seconds = 1
    /\ \E i \in DOMAIN tasks :
          tasks[i].due_date # None /\ tasks[i].completed_at = None
    /\ files[TASKS_PATH].kind = "ok"
    /\ load_tasks(files, TASKS_PATH, now) = tasks

\* the JSON objects at hand: the records of the stores that can be decoded
Records ==
    UNION {{r \in SeqToSet(files[path].data) : decodes(r)} : path \in StorePaths}

\* the keys a record is cut down to: all fields, none, id and title only,
\* these with the duration, all but the elapsed time, and all but the
\* fields that are not counts
KeptKeys ==
    {TaskFields, {}, {"id", "title"}, {"id", "title", "duration_seconds"},
     TaskFields \ {"remaining_seconds"},
     {"duration_seconds", "remaining_seconds"}}

\* the record r with no keys but those of keys
Restrict(r, keys) == [k \in DOMAIN r \cap keys |-> r[k]]

\* C24: from_dict of a record gives a task with all ten fields, each key
\* of the record as the record has it and each missing key with its
\* default: status pending, priority low, duration_seconds 0, due_date and
\* completed_at None, id 0, title and description empty, and
\* remaining_seconds the record's duration_seconds when the record has one
\* and 0 otherwise; a remaining_seconds the record has is taken as it is,
\* whatever the duration_seconds.
C24_FromDictDefaults ==
    \A r \in Records, keys \in KeptKeys :
        LET d == Restrict(r, keys)
            t == from_dict(d, now)
            default(f) ==
                CASE f = "status" -> "pending"
                  [] f = "priority" -> "low"
                  [] f = "duration_seconds" -> 0
                  [] f = "remaining_seconds" ->
                        IF "duration_seconds" \in DOMAIN d
                        THEN d.duration_seconds ELSE 0
                  [] f \in {"due_date", "completed_at"} -> None
                  [] f = "id" -> 0
                  [] f \in {"title", "description"} -> <<>>
                  [] f = "created_at" -> isoformat(now)
        IN /\ DOMAIN t = TaskFields
           /\ \A f \in TaskFields :
                 t[f] = IF f \in DOMAIN d THEN d[f] ELSE default(f)

\* the finished store holds the legacy record, which has a duration of 1,
\* a remaining_seconds of 0 and no priority, description or due date, and
\* the task loaded from it has the 0, the defaults and the duration
C24_Witness ==
    /\ files[FINISHED_PATH].kind = "ok"
    /\ Len(files[FINISHED_PATH].data) = 1
    /\ DOMAIN files[FINISHED_PATH].data[1] # TaskFields
    /\ files[FINISHED_PATH].data[1].duration_seconds = 1
    /\ Len(finished_tasks) = 1
    /\ finished_tasks[1].remaining_seconds = 0
    /\ finished_tasks[1].duration_seconds = 1
    /\ finished_tasks[1].priority = "low"
    /\ finished_tasks[1].due_date = None
    /\ tasks # <<>>

\* every record the stores hold, put into the active store
AllInActiveStore(S) ==
    LET of(path) == IF S.files[path].kind = "ok"
                    THEN SelectSeq(S.files[path].data, decodes) ELSE <<>>
    IN [S.files EXCEPT ![TASKS_PATH] =
           JsonFile(of(TASKS_PATH) \o of(ARCHIVE_PATH) \o of(FINISHED_PATH)
                        \o to_dicts(S.archived_tasks \o S.finished_tasks))]

\* the statuses are those of the collections
StatusMatchesCollection(S) ==
    /\ \A i \in DOMAIN S.tasks : S.tasks[i].status = "pending"
    /\ \A i \in DOMAIN S.finished_tasks : S.finished_tasks[i].status = "done"
    /\ \A i \in DOMAIN S.archived_tasks : S.archived_tasks[i].status = "archived"

\* C25: a start of the program gives an active collection without a task
\* of status archived or done, on the stores as they are and on an active
\* store that holds the records of all three stores (it gives the tasks of
\* that store with another status, in their order); and a start on the
\* stores the program writes when it is closed gives the collections it
\* had, each id in one collection and each status that of its collection.
C25_StartupLoad ==
    /\ \A fs \in {files, AllInActiveStore(St)} :
          LET S2 == main(fs, now)
              stored == load_tasks(fs, TASKS_PATH, now)
          IN /\ \A i \in DOMAIN S2.tasks :
                   S2.tasks[i].status \notin {"archived", "done"}
             /\ S2.tasks = SelectSeq(stored,
                               LAMBDA t : t.status \notin {"archived", "done"})
             /\ S2.archived_tasks = load_tasks(fs, ARCHIVE_PATH, now)
             /\ S2.finished_tasks = load_tasks(fs, FINISHED_PATH, now)
    /\ LET S2 == main(on_close(St).files, now)
       IN /\ Collections(S2) = Collections(St)
          /\ OneCollection(S2)
          /\ StatusMatchesCollection(S2)

\* the program started on an active store with a pending and a finished
\* record and loaded the pending one only; it has since completed that
\* task and created another, so that the stores it wrote hold a finished
\* and an active task
C25_Witness ==
    /\ \E i \in DOMAIN finished_tasks :
          finished_tasks[i].created_at = <<"2020">>
    /\ \E i \in DOMAIN tasks : tasks[i].created_at = isoformat(0)
    /\ Stored(St, FINISHED_PATH, finished_tasks)
    /\ files[ARCHIVE_PATH].kind = "missing"
    /\ \A t \in AllTasks(St) : t.created_at # <<"2021">>

\* the task records there are: those of the tasks of the three collections
\* and those of the three stores, each named by its id and creation time
Known(S) ==
    {<<t.id, t.created_at>> : t \in AllTasks(S)}
        \cup UNION {{<<get(r, "id", 0), get(r, "created_at", None)>> :
                        r \in SeqToSet(S.files[path].data)} : path \in StorePaths}

\* what each operation other than a confirmed permanent delete leaves
\* behind when it is called in S, a start of the program among them
NotDeleting(S) ==
    {on_save(S, NoTask, form) : form \in Forms}
        \cup {on_save(S, t, form) : t \in SeqToSet(visible_tasks(S)), form \in Forms}
        \cup {_mark_done(S, t) : t \in SeqToSet(visible_tasks(S))}
        \cup {_archive_task(S, t) : t \in SeqToSet(visible_tasks(S))}
        \cup {_undo_done(S, t) : t \in SeqToSet(S.finished_tasks)}
        \cup {_restore_task(S, t) : t \in SeqToSet(S.archived_tasks)}
        \cup {_permanently_delete_task(S, t, FALSE) : t \in SeqToSet(S.archived_tasks)}
        \cup {_permanently_delete_finished_task(S, t, FALSE) :
                  t \in SeqToSet(S.finished_tasks)}
        \cup {tick(S, id, recorded) : id \in DOMAIN S.after, recorded \in BOOLEAN}
        \cup {_stop_timer(S, id) : id \in DOMAIN S.timers}
        \cup {on_close(S), main(S.files, S.now), main(on_close(S).files, S.now)}

\* C26: no operation other than a confirmed permanent delete of an
\* archived or finished task (create, edit, complete, reopen, archive,
\* restore, a declined delete, a tick, a timer stop, the close, a start of
\* the program and the saves that follow it) takes a task record out of
\* the three collections and the three stores taken together.
C26_OnlyDeleteDestroys ==
    \A S2 \in NotDeleting(St) : Known(St) \subseteq Known(S2)

\* the program started on an active store with a pending and a finished
\* record; no archive and no finished store has been written, so nothing
\* was ever deleted, and the finished record is in no collection and in no
\* store
C26_Witness ==
    /\ files[ARCHIVE_PATH].kind = "missing"
    /\ files[FINISHED_PATH].kind = "missing"
    /\ <<1, <<"2020">>>> \in Known(St)
    /\ <<2, <<"2021">>>> \notin Known(St)

\* C27: whatever handler or tick runs, and when the program is closed and
\* started again, a task that is in a collection afterwards has the
\* created_at it had before; ids only go (a permanent delete) or come (a
\* create, with an id no task had), never both, so no task changes its
\* id; and the resets leave both fields alone as well.
C27_IdAndCreatedAtFixed ==
    /\ AfterWidget(LAMBDA S2 :
          /\ \A t \in AllTasks(St), u \in AllTasks(S2) :
                u.id = t.id => u.created_at = t.created_at
          /\ AllIds(St) \subseteq AllIds(S2) \/ AllIds(S2) \subseteq AllIds(St))
    /\ \A t \in SeqToSet(tasks) :
          \A S2 \in {_reset_timer(St, t), _toggle_timer(St, t), _stop_timer(St, t.id)} :
              {<<u.id, u.created_at>> : u \in AllTasks(S2)}
                  = {<<u.id, u.created_at>> : u \in AllTasks(St)}

\* the legacy task was reopened, edited and archived and the created task
\* was completed: each has the id and the creation time it started with
C27_Witness ==
    /\ \E i \in DOMAIN archived_tasks :
          /\ archived_tasks[i].id = 1
          /\ archived_tasks[i].created_at = <<"2020">>
          /\ archived_tasks[i].title = <<"B">>
    /\ \E i \in DOMAIN finished_tasks :
          /\ finished_tasks[i].id = 2
          /\ finished_tasks[i].created_at = isoformat(0)

\* C28: a tick writes no store, so the second it counts is in the active
\* collection and not in the active store; _stop_timer called after it,
\* and _stop_timer called now, leaves the active store holding the active
\* collection, each task with the remaining_seconds it has in memory.
C28_StopPersists ==
    /\ \A id \in DOMAIN after, recorded \in BOOLEAN :
          LET S1 == tick(St, id, recorded)
              S2 == _stop_timer(S1, id)
          IN /\ S1.files = files
             /\ ~Stored(S1, TASKS_PATH, S1.tasks)
             /\ S2.tasks = S1.tasks
             /\ Stored(S2, TASKS_PATH, S1.tasks)
             /\ \A i \in DOMAIN tasks :
                   tasks[i].id = id =>
                       S2.files[TASKS_PATH].data[i].remaining_seconds
                           = tasks[i].remaining_seconds + 1
    /\ \A id \in DOMAIN timers :
          LET S2 == _stop_timer(St, id)
          IN \A i \in DOMAIN tasks :
                S2.files[TASKS_PATH].data[i].remaining_seconds
                    = tasks[i].remaining_seconds

\* the legacy task was deleted, the timer of the created task runs and has
\* counted a second that the active store does not hold: a stop of the
\* timer writes it
C28_Witness ==
    /\ finished_tasks = <<>>
    /\ files[FINISHED_PATH].kind = "ok"
    /\ Len(tasks) = 1
    /\ Running(St, tasks[1].id)
    /\ tasks[1].remaining_seconds = 1
    /\ files[TASKS_PATH].data[1].remaining_seconds = 0
    /\ _stop_timer(St, tasks[1].id).files[TASKS_PATH].data[1].remaining_seconds = 1

\* C29: Save in the edit window of a task leaves the store of the
\* collection that holds the task holding that collection: the active
\* store after an edit of an active task, the finished store after an
\* edit of a finished task.
C29_EditPersistsOwner ==
    \A form \in ValidForms :
        /\ \A t \in SeqToSet(tasks) :
              LET S2 == on_save(St, t, form)
              IN Stored(S2, TASKS_PATH, S2.tasks)
        /\ \A t \in SeqToSet(finished_tasks) :
              LET S2 == on_save(St, t, form)
              IN Stored(S2, FINISHED_PATH, S2.finished_tasks)

\* the finished store holds the finished collection, and Save in an edit
\* window for a finished task changes the task, writes the active store
\* and leaves the finished store as it is
C29_Witness ==
    /\ Stored(St, FINISHED_PATH, finished_tasks)
    /\ \E t \in SeqToSet(finished_tasks), form \in ValidForms :
          LET S2 == on_save(St, t, form)
          IN /\ S2.finished_tasks # finished_tasks
             /\ S2.files[FINISHED_PATH] = files[FINISHED_PATH]
             /\ ~Stored(S2, FINISHED_PATH, S2.finished_tasks)
             /\ Stored(S2, TASKS_PATH, S2.tasks)

\* C30: complete leaves the task in the finished collection with a
\* completed_at that is set (not None), so every task the program has
\* completed has one.
C30_CompletedAtSet ==
    /\ \A t \in SeqToSet(tasks) :
          LET S2 == _mark_done(St, t)
          IN Last(S2.finished_tasks).completed_at # None
    /\ \A i \in DOMAIN finished_tasks :
          finished_tasks[i].created_at = isoformat(0) =>
              finished_tasks[i].completed_at # None

\* the created task was completed after a second had been counted: it is
\* finished, with status done, and its completed_at is None, in memory and
\* in the finished store
C30_Witness ==
    \E i \in DOMAIN finished_tasks :
        /\ finished_tasks[i].created_at = isoformat(0)
        /\ finished_tasks[i].status = "done"
        /\ finished_tasks[i].remaining_seconds = 1
        /\ finished_tasks[i].completed_at = None
        /\ Stored(St, FINISHED_PATH, finished_tasks)
        /\ files[FINISHED_PATH].data[i].completed_at = None

\* C31: whenever a task id is in the timers map a tick is scheduled for it
\* and is the one the map records, so a timer that was started counts on
\* until it is stopped, also when a render has hidden the card of the task
\* and destroyed its label.
C31_TimerKeepsRunning ==
    \A id \in DOMAIN timers : Running(St, id)

\* a search text hid the card of the created task and destroyed its label;
\* the next tick counted a second and ended in the label's error: the id
\* is in the timers map and no tick is scheduled for it
C31_Witness ==
    \E i \in DOMAIN tasks :
        /\ tasks[i].status = "pending"
        /\ tasks[i] \notin SeqToSet(visible_tasks(St))
        /\ get(timer_labels, tasks[i].id, "none") = "destroyed"
        /\ tasks[i].remaining_seconds = 1
        /\ tasks[i].id \in DOMAIN timers
        /\ tasks[i].id \notin DOMAIN after

\* at most one tick callback is scheduled for each task id of S, and it is
\* the one self.timers records
OneTick(S) ==
    \A id \in DOMAIN S.after :
        /\ S.after[id] = 1
        /\ id \in DOMAIN S.timers
        /\ S.timers[id] = "pending"

\* C32: in every reachable state, whatever the order of renders, ticks,
\* lifecycle operations and the timer starts and stops they make, at most
\* one tick callback is scheduled per task id, and it is the callback the
\* timers map records; the same holds after the toggle and the reset of a
\* timer.  So no task gains more than 1 second per timer interval.
C32_OneTickPerTask ==
    /\ OneTick(St)
    /\ \A t \in SeqToSet(tasks) :
          /\ OneTick(_toggle_timer(St, t))
          /\ OneTick(_reset_timer(St, t))

\* the timer of a task ticked once, was stopped by archive and started again
\* by the render of restore: one tick is scheduled for the task
C32_Witness ==
    /\ files[ARCHIVE_PATH] = JsonFile(<<>>)
    /\ \E i \in DOMAIN tasks :
          /\ tasks[i].remaining_seconds = 1
          /\ get(timer_labels, tasks[i].id, "none") = "live"
          /\ Running(St, tasks[i].id)
          /\ after[tasks[i].id] = 1

\* _mark_done up to its first save: the process stops after
\* save_tasks(TASKS_PATH, ...) and before save_tasks(FINISHED_PATH, ...)
_mark_done_first_save(S, task) ==
    LET S1 == IF task.id \in DOMAIN S.timers THEN _stop_timer(S, task.id) ELSE S
        S2 == [S1 EXCEPT !.tasks = Without(@, task.id)]
        S4 == [S2 EXCEPT !.finished_tasks =
                  Append(@, [task EXCEPT !.status = "done",
                                         !.remaining_seconds = clamp(task.remaining_seconds)])]
    IN save_tasks(S4, TASKS_PATH, S4.tasks)

\* _undo_done up to its first save
_undo_done_first_save(S, task) ==
    LET S1 == [S EXCEPT !.finished_tasks = Without(@, task.id)]
        S3 == [S1 EXCEPT !.tasks =
                  Append(@, [task EXCEPT !.status = "pending",
                                         !.remaining_seconds = reopened_seconds(task)])]
    IN save_tasks(S3, TASKS_PATH, S3.tasks)

\* _archive_task up to its first save
_archive_task_first_save(S, task) ==
    LET S1 == IF task.id \in DOMAIN S.timers THEN _stop_timer(S, task.id) ELSE S
        S2 == [S1 EXCEPT !.tasks = Without(@, task.id)]
        S4 == [S2 EXCEPT !.archived_tasks = Append(@, [task EXCEPT !.status = "archived"])]
    IN save_tasks(S4, TASKS_PATH, S4.tasks)

\* _restore_task up to its first save
_restore_task_first_save(S, task) ==
    LET S1 == [S EXCEPT !.archived_tasks = Without(@, task.id)]
        S3 == [S1 EXCEPT !.tasks = Append(@, [task EXCEPT !.status = "pending"])]
    IN save_tasks(S3, TASKS_PATH, S3.tasks)

\* the number of places of the three collections of S that hold the id
Places(S, id) ==
    Occurrences(S.tasks, id) + Occurrences(S.archived_tasks, id)
        + Occurrences(S.finished_tasks, id)

\* C33: when the process stops between the two saves of complete, reopen,
\* archive or restore and the program is started again on the files it
\* left, the moved task is in exactly one of the three loaded collections.
C33_CrashBetweenSaves ==
    /\ \A t \in SeqToSet(tasks) :
          /\ Places(main(_mark_done_first_save(St, t).files, now), t.id) = 1
          /\ Places(main(_archive_task_first_save(St, t).files, now), t.id) = 1
    /\ \A t \in SeqToSet(finished_tasks) :
          Places(main(_undo_done_first_save(St, t).files, now), t.id) = 1
    /\ \A t \in SeqToSet(archived_tasks) :
          Places(main(_restore_task_first_save(St, t).files, now), t.id) = 1

\* an active and a finished task, each in its store: a stop between the
\* saves of complete leaves the active task in no store, and a stop
\* between the saves of reopen leaves the finished task in two
C33_Witness ==
    /\ Stored(St, TASKS_PATH, tasks)
    /\ Stored(St, FINISHED_PATH, finished_tasks)
    /\ \E t \in SeqToSet(tasks) :
          Places(main(_mark_done_first_save(St, t).files, now), t.id) = 0
    /\ \E t \in SeqToSet(finished_tasks) :
          LET S2 == main(_undo_done_first_save(St, t).files, now)
          IN Occurrences(S2.tasks, t.id) = 1 /\ Occurrences(S2.finished_tasks, t.id) = 1

\* the task a create with this form adds to S
Created(S, form) == Last(on_save(S, NoTask, form).tasks)

NoFilter(S) ==
    /\ strip(S.search_var) = <<>>
    /\ status_map(S.status_filter) = "all"
    /\ prio_map(S.priority_filter) = "all"

\* when nothing is filtered, a timer runs for every active task of S
AllRunning(S) ==
    NoFilter(S) => \A t \in SeqToSet(S.tasks) : Running(S, t.id)

\* C35: with a blank search text and both filters at all, a timer runs
\* for every task of the active collection after the startup load and
\* after each lifecycle operation has returned; a restored task has a
\* running timer when restore returns.
C35_ActiveTasksRun ==
    /\ AllRunning(main(files, now))
    /\ AfterLifecycle(AllRunning)
    /\ \A t \in SeqToSet(archived_tasks) :
          NoFilter(St) => Running(_restore_task(St, t), t.id)

\* the card of a task was hidden by a search text while a tick fired, the
\* search text was cleared and the task was edited: nothing is filtered,
\* the card has its label, the edit saved the second that was counted, and
\* no tick is scheduled for the task
C35_Witness ==
    /\ NoFilter(St)
    /\ Stored(St, TASKS_PATH, tasks)
    /\ \E i \in DOMAIN tasks :
          /\ tasks[i].remaining_seconds = 1
          /\ get(timer_labels, tasks[i].id, "none") = "live"
          /\ tasks[i].id \in DOMAIN timers
          /\ ~Running(St, tasks[i].id)

\* C36: in every reachable state, so after any operation, the statistics
\* shown are: total = the number of tasks of the active collection,
\* pending = the number of active tasks whose status is not done, done =
\* the number of tasks of the finished collection, high priority = the
\* number of active tasks of priority high whose status is not done, and
\* archived = the number of tasks of the archived collection; total equals
\* pending, and no finished task is counted in total.
C36_Statistics ==
    /\ stats_label.total = Len(tasks)
    /\ stats_label.pending =
          Cardinality({i \in DOMAIN tasks : tasks[i].status # "done"})
    /\ stats_label.done = Len(finished_tasks)
    /\ stats_label.high =
          Cardinality({i \in DOMAIN tasks :
                          tasks[i].priority = "high" /\ tasks[i].status # "done"})
    /\ archive_count_label = Len(archived_tasks)
    /\ stats_label.total = stats_label.pending
    /\ stats_label.total = Cardinality(Ids(tasks) \ Ids(finished_tasks))

\* a task of high priority was added beside a finished task: the labels show
\* one task in total, pending and of high priority, and one done
C36_Witness ==
    /\ Len(tasks) = 1
    /\ tasks[1].priority = "high"
    /\ Len(finished_tasks) = 1
    /\ stats_label = [total |-> 1, pending |-> 1, done |-> 1, high |-> 1]
    /\ archive_count_label = 0

====
